---- MODULE Spec2Model ----
(***************************************************************************)
(* Model of the market-data loaders (modules/data_loader.py) and of the    *)
(* technical-indicator calculator (modules/indicators.py).                 *)
(*                                                                         *)
(* Conventions.                                                            *)
(*   - An optional value is a sequence of length 0 or 1: None, NaN and NaT *)
(*     are <<>>, a present value v is <<v>>.                               *)
(*   - A calendar date is its day ordinal; a datetime is a number of       *)
(*     minutes, so that its date is  minutes \div MinutesPerDay.           *)
(*   - A text (a file or folder name, a csv cell) is a record that keeps   *)
(*     the structure the code parses or formats.                           *)
(***************************************************************************)
EXTENDS Integers, Sequences, FiniteSets, TLC

VARIABLES
    fs_entries,      \* children of base_path on disk: set of [name, is_dir]
    fs_files,        \* csv files on disk: function path -> file content
    expiry_folders,  \* OptionsDataLoader._expiry_folders: date -> folder name
    strike_cache,    \* OptionsDataLoader._strike_cache
    data_cache,      \* OptionsDataLoader._data_cache
    ret,             \* the last call: operation, arguments, outcome
    spot,            \* the SpotDataLoader instance and the files it reads
    frame,           \* the bar table handed to the indicator calculator
    ind,             \* the last indicator result
    callers,         \* concurrent load_option_data calls: position and locals
    disk_reads       \* contract files read since the last clear_cache, per key

vars == <<fs_entries, fs_files, expiry_folders, strike_cache, data_cache,
          ret, spot, frame, ind, callers, disk_reads>>

loaderVars == <<fs_entries, fs_files, expiry_folders, strike_cache, data_cache>>

----------------------------------------------------------------------------
(* Optional values *)

None == <<>>
NaN == <<>>
NaT == <<>>
Some(v) == <<v>>

Abs(x) == IF x < 0 THEN -x ELSE x

EmptyMap == [x \in {} |-> x]

MapPut(f, k, v) == [x \in (DOMAIN f) \cup {k} |-> IF x = k THEN v ELSE f[x]]

(* sorted(S) for a set of integers *)
RECURSIVE Sorted(_)
Sorted(S) ==
    IF S = {} THEN <<>>
    ELSE LET m == CHOOSE x \in S : \A y \in S : x <= y
         IN <<m>> \o Sorted(S \ {m})

(* sorted(S, reverse=True): used only by a mutant *)
RECURSIVE SortedDesc(_)
SortedDesc(S) ==
    IF S = {} THEN <<>>
    ELSE LET m == CHOOSE x \in S : \A y \in S : x >= y
         IN <<m>> \o SortedDesc(S \ {m})

----------------------------------------------------------------------------
(* Texts *)

(* A folder name: "2024-01-<dd>" (padded) or "2024-1-<d>" (kind "ymd"),     *)
(* "202401<dd>" (kind "compact") or a word (kind "word").                   *)
DateName(d, padded) == [kind |-> "ymd", day |-> d, padded |-> padded]
CompactName(d) == [kind |-> "compact", day |-> d, padded |-> TRUE]
WordName == [kind |-> "word", day |-> 0, padded |-> FALSE]

(* datetime.strptime(name, '%Y-%m-%d').date(); None stands for ValueError *)
Strptime(name) == IF name.kind = "ymd" THEN Some(name.day) ELSE None

(* A decimal text <whole>[.<digits>], or a word *)
Dec(whole, frac) == [kind |-> "dec", whole |-> whole, frac |-> frac]
Word == [kind |-> "word", whole |-> 0, frac |-> <<>>]

(* A strike argument: a Python int or float, its value kept in tenths *)
IntStrike(n) == [py |-> "int", tenths |-> 10 * n]
FloatStrike(t) == [py |-> "float", tenths |-> t]

(* f"{strike}": str of an int has no point, repr of a float has one *)
PyStr(strike) ==
    IF strike.py = "int" THEN Dec(strike.tenths \div 10, <<>>)
    ELSE Dec(strike.tenths \div 10, <<strike.tenths % 10>>)

(* int(strike) *)
PyInt(strike) == strike.tenths \div 10

(* float(text) in tenths; None stands for ValueError.  The texts of the    *)
(* model have at most one non-zero decimal digit.                          *)
PyFloat(text) ==
    IF text.kind = "dec"
    THEN Some(10 * text.whole + (IF text.frac = <<>> THEN 0 ELSE text.frac[1]))
    ELSE None

(* str.upper() on the option-type texts of the model *)
Upper(s) ==
    CASE s = "ce" -> "CE"
      [] s = "pe" -> "PE"
      [] s = "xx" -> "XX"
      [] OTHER -> s

(* header.lower().strip() on the header texts of the model *)
LowerStrip(h) ==
    CASE h = "Datetime" -> "datetime"
      [] h = "Timestamp" -> "timestamp"
      [] h = "Close" -> "close"
      [] h = " Volume" -> "volume"
      [] h = "OI" -> "oi"
      [] OTHER -> h

----------------------------------------------------------------------------
(* csv cells and tables *)

MinutesPerDay == 1440

DateOf(minutes) == minutes \div MinutesPerDay

TsCell(m) == [kind |-> "ts", v |-> m]
NumCell(n) == [kind |-> "num", v |-> n]
TextCell == [kind |-> "text", v |-> 0]
EmptyCell == [kind |-> "empty", v |-> 0]

(* pd.to_datetime(column, errors='coerce') on one cell *)
ToDatetimeCoerce(cell) == IF cell.kind = "ts" THEN Some(cell.v) ELSE NaT

(* pd.to_numeric(column, errors='coerce') on one cell *)
ToNumericCoerce(cell) == IF cell.kind = "num" THEN Some(cell.v) ELSE NaN

(* A file content: readable or not (pd.read_csv raises), its header and    *)
(* its rows, each row a function header -> cell.                           *)
CsvFile(columns, rows) == [readable |-> TRUE, columns |-> columns, rows |-> rows]
CorruptFile == [readable |-> FALSE, columns |-> {}, rows |-> <<>>]

DatetimeCols == <<"datetime", "date", "time", "timestamp">>
NumericCols == {"open", "high", "low", "close", "volume", "oi"}

(* the header whose normalised name is col *)
RawHeader(columns, col) == CHOOSE h \in columns : LowerStrip(h) = col

NormColumns(columns) == {LowerStrip(h) : h \in columns}

RECURSIVE FirstPresent(_, _)
FirstPresent(names, cols) ==
    IF names = <<>> THEN None
    ELSE IF Head(names) \in cols THEN Some(Head(names))
    ELSE FirstPresent(Tail(names), cols)

(* OptionsDataLoader._standardize_dataframe *)
StandardizeDataframe(file) ==
    LET cols == NormColumns(file.columns)
        dt_col == FirstPresent(DatetimeCols, cols)
        outCols == IF dt_col # None THEN cols \cup {"datetime"} ELSE cols
        Cell(row, c) ==
            IF c = "datetime" /\ dt_col # None
            THEN ToDatetimeCoerce(row[RawHeader(file.columns, dt_col[1])])
            ELSE IF c \in NumericCols
            THEN ToNumericCoerce(row[RawHeader(file.columns, c)])
            ELSE row[RawHeader(file.columns, c)]
    IN [columns |-> outCols,
        rows |-> [i \in 1..Len(file.rows) |->
                     [c \in outCols |-> Cell(file.rows[i], c)]]]

----------------------------------------------------------------------------
(* OptionsDataLoader *)

(* OptionsDataLoader._scan_expiries: the dictionaries the scan can build.  *)
(* Two folders naming one date ("2024-01-04", "2024-1-4") overwrite each   *)
(* other in iterdir() order, which the file system chooses.                *)
ScanExpiries(entries) ==
    LET dirs == {e.name : e \in {x \in entries : x.is_dir}}
        dated == {n \in dirs : Strptime(n) # None}
        days == {Strptime(n)[1] : n \in dated}
    IN {f \in [days -> dated] : \A d \in days : Strptime(f[d]) = Some(d)}

GetAvailableExpiriesDesc(folders) == SortedDesc(DOMAIN folders)

(* OptionsDataLoader.get_available_expiries *)
GetAvailableExpiries(folders) == Sorted(DOMAIN folders)

(* a trade_date argument: a date, or a datetime (isinstance(.., datetime)) *)
DateArg(d) == [is_datetime |-> FALSE, date |-> d, minute |-> 0]
DatetimeArg(m) == [is_datetime |-> TRUE, date |-> DateOf(m), minute |-> m]

(* trade_date.date() when trade_date is a datetime *)
AsDate(arg) == IF arg.is_datetime THEN DateOf(arg.minute) ELSE arg.date

RECURSIVE FirstOnOrAfter(_, _)
FirstOnOrAfter(expiries, d) ==
    IF expiries = <<>> THEN None
    ELSE IF Head(expiries) >= d THEN Some(Head(expiries))
    ELSE FirstOnOrAfter(Tail(expiries), d)

(* OptionsDataLoader.get_expiry_for_date *)
GetExpiryForDateOf(folders, trade_date) ==
    FirstOnOrAfter(GetAvailableExpiries(folders), AsDate(trade_date))

Path(dir, file) == [dir |-> dir, file |-> file]

(* file_path.exists(): the file is there, in a folder that is there *)
Exists(files, path) == path \in DOMAIN files

(* folder.glob('*.csv') *)
Glob(files, dir) == {p \in DOMAIN files : p.dir = dir}

(* the strikes one file name contributes to the list of option type opt *)
StrikeOfFile(file, opt) ==
    IF Len(file) = 2 /\ PyFloat(file[1]) # None /\ Upper(file[2]) = opt
    THEN {PyFloat(file[1])[1]}
    ELSE {}

(* the scan of OptionsDataLoader.get_available_strikes (lines 65-78) *)
ScanStrikes(files, dir) ==
    [CE |-> Sorted(UNION {StrikeOfFile(p.file, "CE") : p \in Glob(files, dir)}),
     PE |-> Sorted(UNION {StrikeOfFile(p.file, "PE") : p \in Glob(files, dir)})]

(* the data-cache key f"{expiry_date}_{strike}_{option_type}" *)
DataKey(expiry, strike, option_type) == <<expiry, PyStr(strike), option_type>>

ExactName(strike, option_type) == <<PyStr(strike), Upper(option_type)>>

FallbackName(strike, option_type) ==
    <<Dec(PyInt(strike), <<0>>), Upper(option_type)>>

(* a resolution that prefers the normalised name: a mutant *)
ResolveFileFallbackFirst(files, dir, strike, option_type) ==
    LET exact == Path(dir, ExactName(strike, option_type))
        fallback == Path(dir, FallbackName(strike, option_type))
    IN IF Exists(files, fallback) THEN Some(fallback)
       ELSE IF Exists(files, exact) THEN Some(exact)
       ELSE None

(* file-name resolution of load_option_data (lines 94-103): the path read, *)
(* or None                                                                 *)
ResolveFile(files, dir, strike, option_type) ==
    LET exact == Path(dir, ExactName(strike, option_type))
        fallback == Path(dir, FallbackName(strike, option_type))
    IN IF Exists(files, exact) THEN Some(exact)
       ELSE IF Exists(files, fallback) THEN Some(fallback)
       ELSE None

(* the table load_option_data builds from a file (lines 106-109) *)
StampedFrame(file, strike, option_type) ==
    LET df == StandardizeDataframe(file)
    IN [columns |-> df.columns \cup {"strike", "option_type"},
        rows |-> df.rows,
        strike |-> strike,
        option_type |-> Upper(option_type)]

(* OptionsDataLoader.load_option_data: the value returned, whether the     *)
(* cache answered, the file read and the data cache afterwards             *)
LoadOptionDataOf(cache, folders, files, expiry, strike, option_type) ==
    LET key == DataKey(expiry, strike, option_type)
        miss == [value |-> None, hit |-> FALSE, path |-> None, cache |-> cache]
    IN IF key \in DOMAIN cache
       THEN [value |-> Some(cache[key]), hit |-> TRUE, path |-> None,
             cache |-> cache]
       ELSE IF expiry \notin DOMAIN folders THEN miss
       ELSE LET found == ResolveFile(files, folders[expiry], strike, option_type)
            IN IF found = None THEN miss
               ELSE IF ~files[found[1]].readable
               THEN [miss EXCEPT !.path = found]
               ELSE LET df == StampedFrame(files[found[1]], strike, option_type)
                    IN [value |-> Some(df), hit |-> FALSE, path |-> found,
                        cache |-> MapPut(cache, key, df)]

----------------------------------------------------------------------------
(* Outcomes of a call *)

Return(v) == [outcome |-> "return", value |-> Some(v), exc |-> ""]
ReturnNone == [outcome |-> "return", value |-> None, exc |-> ""]
Raise(e) == [outcome |-> "raise", value |-> None, exc |-> e]

(* time_diff.idxmin() over the rows idx: the first row, in row order, of   *)
(* least absolute difference from the timestamp                            *)
IdxMin(rows, idx, timestamp) ==
    LET diff(i) == Abs(rows[i]["datetime"][1] - timestamp)
    IN CHOOSE i \in idx :
          \A j \in idx : diff(i) < diff(j) \/ (diff(i) = diff(j) /\ i <= j)

(* int(row.get(col, 0)); None stands for ValueError (int of NaN) *)
IntOrDefault(df, row, col) ==
    IF col \notin df.columns THEN Some(0)
    ELSE IF row[col] = NaN THEN None
    ELSE Some(row[col][1])

(* the record built from the matched row (lines 151-160); open, high and   *)
(* low are read exactly as close is                                        *)
PriceRecord(df, row) ==
    IF "close" \notin df.columns THEN Raise("KeyError")
    ELSE IF IntOrDefault(df, row, "volume") = None
              \/ IntOrDefault(df, row, "oi") = None
    THEN Raise("ValueError")
    ELSE Return([datetime |-> row["datetime"][1],
                 close |-> row["close"],
                 volume |-> IntOrDefault(df, row, "volume")[1],
                 oi |-> IntOrDefault(df, row, "oi")[1]])

(* OptionsDataLoader.get_option_price_at_time after the load (lines        *)
(* 135-160), tolerance in minutes                                          *)
OptionPriceOfFrame(loaded, timestamp, tolerance_minutes) ==
    IF loaded = None \/ loaded[1].rows = <<>> THEN ReturnNone
    ELSE LET df == loaded[1]
         IN IF "datetime" \notin df.columns THEN Raise("KeyError")
            ELSE LET day == {i \in 1..Len(df.rows) :
                               /\ df.rows[i]["datetime"] # NaT
                               /\ DateOf(df.rows[i]["datetime"][1]) = DateOf(timestamp)}
                 IN IF day = {} THEN ReturnNone
                    ELSE LET m == IdxMin(df.rows, day, timestamp)
                             d == Abs(df.rows[m]["datetime"][1] - timestamp)
                         IN IF d > tolerance_minutes THEN ReturnNone
                            ELSE PriceRecord(df, df.rows[m])

----------------------------------------------------------------------------
(* The calls on an OptionsDataLoader.  ret records the call: its outcome,  *)
(* whether a cache answered (hit), the file read (path), the expiries      *)
(* listed before the call (before), and, for the same call repeated right  *)
(* after a clear_cache, the outcome it had before the clear (prior).       *)

Outcome(r) == [outcome |-> r.outcome, value |-> r.value, exc |-> r.exc]

Observe(op, args, res, hit, path) ==
    ret' = [op |-> op, args |-> args,
            outcome |-> res.outcome, value |-> res.value, exc |-> res.exc,
            hit |-> hit, path |-> path,
            before |-> GetAvailableExpiries(expiry_folders),
            cleared |-> FALSE, dropped |-> <<0, 0>>,
            prior |-> IF ret.cleared /\ ret.op = op /\ ret.args = args
                      THEN Some(Outcome(ret)) ELSE None]

NoCall ==
    [op |-> "init", args |-> <<>>, outcome |-> "return", value |-> None,
     exc |-> "", hit |-> FALSE, path |-> None, before |-> <<>>,
     cleared |-> FALSE, dropped |-> <<0, 0>>, prior |-> None]

ListExpiries ==
    /\ Observe("get_available_expiries", <<>>,
               Return(GetAvailableExpiries(expiry_folders)), FALSE, None)
    /\ UNCHANGED <<loaderVars, spot, frame, ind, callers, disk_reads>>

GetExpiryForDate(trade_date) ==
    /\ Observe("get_expiry_for_date", <<trade_date>>,
               [outcome |-> "return",
                value |-> GetExpiryForDateOf(expiry_folders, trade_date),
                exc |-> ""],
               FALSE, None)
    /\ UNCHANGED <<loaderVars, spot, frame, ind, callers, disk_reads>>

(* OptionsDataLoader.get_available_strikes; str(expiry_date), the cache    *)
(* key, is one-to-one on dates and the date stands for it                  *)
GetAvailableStrikes(expiry) ==
    /\ IF expiry \in DOMAIN strike_cache
       THEN /\ Observe("get_available_strikes", <<expiry>>,
                       Return(strike_cache[expiry]), TRUE, None)
            /\ UNCHANGED strike_cache
       ELSE IF expiry \notin DOMAIN expiry_folders
       THEN /\ Observe("get_available_strikes", <<expiry>>,
                       Return([CE |-> <<>>, PE |-> <<>>]), FALSE, None)
            /\ UNCHANGED strike_cache
       ELSE LET strikes == ScanStrikes(fs_files, expiry_folders[expiry])
            IN /\ Observe("get_available_strikes", <<expiry>>,
                          Return(strikes), FALSE, None)
               /\ strike_cache' = MapPut(strike_cache, expiry, strikes)
    /\ UNCHANGED <<fs_entries, fs_files, expiry_folders, data_cache,
                   spot, frame, ind, callers, disk_reads>>

LoadOptionData(expiry, strike, option_type) ==
    LET r == LoadOptionDataOf(data_cache, expiry_folders, fs_files,
                              expiry, strike, option_type)
    IN /\ Observe("load_option_data", <<expiry, strike, option_type>>,
                  [outcome |-> "return", value |-> r.value, exc |-> ""],
                  r.hit, r.path)
       /\ data_cache' = r.cache
       /\ UNCHANGED <<fs_entries, fs_files, expiry_folders, strike_cache,
                      spot, frame, ind, callers, disk_reads>>

GetOptionPriceAtTime(expiry, strike, option_type, timestamp, tolerance_minutes) ==
    LET r == LoadOptionDataOf(data_cache, expiry_folders, fs_files,
                              expiry, strike, option_type)
    IN /\ Observe("get_option_price_at_time",
                  <<expiry, strike, option_type, timestamp, tolerance_minutes>>,
                  OptionPriceOfFrame(r.value, timestamp, tolerance_minutes),
                  r.hit, r.path)
       /\ data_cache' = r.cache
       /\ UNCHANGED <<fs_entries, fs_files, expiry_folders, strike_cache,
                      spot, frame, ind, callers, disk_reads>>

(* a clear_cache that also re-scans the expiry folders: a mutant *)
ClearCacheRescan ==
    /\ data_cache' = EmptyMap
    /\ strike_cache' = EmptyMap
    /\ expiry_folders' \in ScanExpiries(fs_entries)
    /\ ret' = [ret EXCEPT !.cleared = TRUE, !.prior = None,
                          !.before = GetAvailableExpiries(expiry_folders),
                          !.dropped = <<Cardinality(DOMAIN strike_cache),
                                        Cardinality(DOMAIN data_cache)>>]
    /\ UNCHANGED <<fs_entries, fs_files, spot, frame, ind, callers>>
    /\ disk_reads' = EmptyMap

(* a clear_cache that forgets the strike cache: a mutant *)
ClearCacheDataOnly ==
    /\ data_cache' = EmptyMap
    /\ ret' = [ret EXCEPT !.cleared = TRUE, !.prior = None,
                          !.before = GetAvailableExpiries(expiry_folders),
                          !.dropped = <<Cardinality(DOMAIN strike_cache),
                                        Cardinality(DOMAIN data_cache)>>]
    /\ UNCHANGED <<fs_entries, fs_files, expiry_folders, strike_cache,
                   spot, frame, ind, callers>>
    /\ disk_reads' = EmptyMap

(* OptionsDataLoader.clear_cache; ret keeps the call it follows *)
ClearCache ==
    /\ data_cache' = EmptyMap
    /\ strike_cache' = EmptyMap
    /\ ret' = [ret EXCEPT !.cleared = TRUE, !.prior = None,
                          !.before = GetAvailableExpiries(expiry_folders),
                          !.dropped = <<Cardinality(DOMAIN strike_cache),
                                        Cardinality(DOMAIN data_cache)>>]
    /\ UNCHANGED <<fs_entries, fs_files, expiry_folders, spot, frame, ind, callers>>
    /\ disk_reads' = EmptyMap

(* The environment: a folder appears under base_path, or one is removed    *)
(* with the files in it.                                                   *)
Mkdir(name) ==
    /\ \A e \in fs_entries : e.name # name
    /\ fs_entries' = fs_entries \cup {[name |-> name, is_dir |-> TRUE]}
    /\ UNCHANGED <<fs_files, expiry_folders, strike_cache, data_cache,
                   ret, spot, frame, ind, callers, disk_reads>>

Rmdir(name) ==
    /\ [name |-> name, is_dir |-> TRUE] \in fs_entries
    /\ fs_entries' = fs_entries \ {[name |-> name, is_dir |-> TRUE]}
    /\ fs_files' = [p \in {q \in DOMAIN fs_files : q.dir # name} |-> fs_files[p]]
    /\ UNCHANGED <<expiry_folders, strike_cache, data_cache,
                   ret, spot, frame, ind, callers, disk_reads>>

----------------------------------------------------------------------------
(* Specifications of the options loader *)

At(day, minute) == day * MinutesPerDay + minute

NoSpot == [is_folder |-> FALSE, data |-> None, files |-> EmptyMap]

Dir(name) == [name |-> name, is_dir |-> TRUE]
PlainFile(name) == [name |-> name, is_dir |-> FALSE]

DefaultTolerance == 5

(* a well-formed contract file: two bars, at 09:15 and 09:18 of day 3 *)
SampleBars ==
    CsvFile({"Datetime", "Close", " Volume", "OI"},
            <<[h \in {"Datetime", "Close", " Volume", "OI"} |->
                  CASE h = "Datetime" -> TsCell(At(3, 555))
                    [] h = "Close" -> NumCell(101)
                    [] h = " Volume" -> NumCell(7)
                    [] OTHER -> NumCell(3)],
              [h \in {"Datetime", "Close", " Volume", "OI"} |->
                  CASE h = "Datetime" -> TsCell(At(3, 558))
                    [] h = "Close" -> NumCell(102)
                    [] h = " Volume" -> NumCell(8)
                    [] OTHER -> NumCell(4)]>>)

LoaderDirNames == {DateName(4, TRUE), DateName(11, TRUE)}

(* the folders that appear and disappear while the loader runs *)
VolatileDirNames == {DateName(11, TRUE)}

LoaderPaths ==
    {Path(DateName(4, TRUE), <<Dec(25000, <<>>), "CE">>),
     Path(DateName(4, TRUE), <<Dec(25000, <<0>>), "CE">>),
     Path(DateName(11, TRUE), <<Dec(25000, <<5>>), "PE">>),
     Path(DateName(11, TRUE), <<Word>>)}

QueryExpiries == {4, 11}
QueryStrikes == {IntStrike(25000), FloatStrike(250000), FloatStrike(250005)}
QueryTypes == {"ce"}
QueryTimes == {At(3, 556), At(3, 570)}

(* no load_option_data call is in progress *)
NoCallers == <<>>

InitIdle ==
    /\ strike_cache = EmptyMap
    /\ data_cache = EmptyMap
    /\ ret = NoCall
    /\ callers = NoCallers
    /\ disk_reads = EmptyMap

InitLoader ==
    /\ fs_entries \in {{Dir(n) : n \in D} : D \in SUBSET LoaderDirNames}
    /\ \E S \in SUBSET {p \in LoaderPaths : Dir(p.dir) \in fs_entries} :
         \E bad \in {B \in SUBSET S : Cardinality(B) <= 1} :
            fs_files = [p \in S |-> IF p \in bad THEN CorruptFile ELSE SampleBars]
    /\ expiry_folders \in ScanExpiries(fs_entries)
    /\ InitIdle
    /\ spot = NoSpot
    /\ frame = <<>>
    /\ ind = <<>>

NextFixed ==
    \/ \E e \in QueryExpiries : GetAvailableStrikes(e)
    \/ \E e \in QueryExpiries, s \in QueryStrikes, t \in QueryTypes :
          LoadOptionData(e, s, t)
    \/ \E e \in QueryExpiries, s \in QueryStrikes, t \in QueryTypes,
          ts \in QueryTimes :
          GetOptionPriceAtTime(e, s, t, ts, DefaultTolerance)
    \/ ClearCache

NextLoader ==
    \/ NextFixed
    \/ \E n \in VolatileDirNames : Mkdir(n)
    \/ \E n \in VolatileDirNames : Rmdir(n)

(* the loader with the files on disk unchanged *)
SpecFixed == InitLoader /\ [][NextFixed]_vars

(* the loader while folders come and go on disk *)
SpecLoader == InitLoader /\ [][NextLoader]_vars

(* the expiry index alone: folders of every kind, and the two queries *)
MaxDay == 4

ExpiryEntries ==
    {Dir(DateName(d, TRUE)) : d \in 1..MaxDay}
        \cup {Dir(DateName(1, FALSE)), Dir(CompactName(2)), Dir(WordName),
              PlainFile(DateName(2, FALSE))}

TradeDates ==
    {DateArg(d) : d \in 0..(MaxDay + 1)}
        \cup {DatetimeArg(At(d, 600)) : d \in 0..(MaxDay + 1)}

InitExpiry ==
    /\ fs_entries \in SUBSET ExpiryEntries
    /\ fs_files = EmptyMap
    /\ expiry_folders \in ScanExpiries(fs_entries)
    /\ InitIdle
    /\ spot = NoSpot
    /\ frame = <<>>
    /\ ind = <<>>

NextExpiry ==
    \/ ListExpiries
    \/ \E d \in TradeDates : GetExpiryForDate(d)

SpecExpiry == InitExpiry /\ [][NextExpiry]_vars

----------------------------------------------------------------------------
(* SpotDataLoader *)

SpotNumericCols == {"open", "high", "low", "close", "volume"}

(* SpotDataLoader._standardize_data before its sort (lines 195-201) *)
StandardizeSpot(file) ==
    LET cols == NormColumns(file.columns)
        Cell(row, c) ==
            IF c = "datetime" THEN ToDatetimeCoerce(row[RawHeader(file.columns, c)])
            ELSE IF c \in SpotNumericCols
            THEN ToNumericCoerce(row[RawHeader(file.columns, c)])
            ELSE row[RawHeader(file.columns, c)]
    IN [columns |-> cols,
        rows |-> [i \in 1..Len(file.rows) |->
                     [c \in cols |-> Cell(file.rows[i], c)]]]

(* row a may stand before row b in a table sorted by datetime, NaT last *)
MayPrecede(a, b) ==
    \/ b["datetime"] = NaT
    \/ a["datetime"] # NaT /\ a["datetime"][1] <= b["datetime"][1]

(* self._data.sort_values('datetime') (line 202): the orders the sort may  *)
(* leave, rows of equal datetime in either order                           *)
SortValues(df) ==
    LET n == Len(df.rows)
        perms == {p \in [1..n -> 1..n] :
                    /\ \A i, j \in 1..n : i # j => p[i] # p[j]
                    /\ \A i \in 1..n : \A j \in 1..n :
                          i < j => MayPrecede(df.rows[p[i]], df.rows[p[j]])}
    IN {[columns |-> df.columns, rows |-> [i \in 1..n |-> df.rows[p[i]]]] :
           p \in perms}

(* a spot file name: <date>.csv written YYYY-MM-DD ("iso") or YYYYMMDD *)
SpotName(date, form) == <<date, form>>

(* SpotDataLoader.__init__ on a single file: the instances it can build;   *)
(* none when read_csv or sort_values raises                                *)
SpotFromFile(file) ==
    IF file.readable /\ "datetime" \in NormColumns(file.columns)
    THEN {[is_folder |-> FALSE, data |-> Some(df), files |-> EmptyMap] :
             df \in SortValues(StandardizeSpot(file))}
    ELSE {}

(* SpotDataLoader.__init__ on a folder *)
SpotFromFolder(files) == [is_folder |-> TRUE, data |-> None, files |-> files]

(* pd.to_datetime(column) without errors='coerce': an empty cell is NaT,   *)
(* an unparseable one raises (None)                                        *)
ToDatetimeStrict(cell) ==
    IF cell.kind = "ts" THEN Some(Some(cell.v))
    ELSE IF cell.kind = "empty" THEN Some(NaT)
    ELSE None

(* the table read_csv leaves in folder mode (lines 215-219): only the      *)
(* datetime column is converted                                            *)
FolderFrame(file) ==
    LET cols == NormColumns(file.columns)
        Cell(row, c) ==
            IF c = "datetime"
            THEN ToDatetimeStrict(row[RawHeader(file.columns, c)])[1]
            ELSE row[RawHeader(file.columns, c)]
    IN [columns |-> cols,
        rows |-> [i \in 1..Len(file.rows) |->
                     [c \in cols |-> Cell(file.rows[i], c)]]]

EmptyFrame == [columns |-> {}, rows |-> <<>>]

(* the rows of a table at the positions idx, in the table's order *)
RECURSIVE SelectRows(_, _, _)
SelectRows(rows, idx, i) ==
    IF i > Len(rows) THEN <<>>
    ELSE (IF i \in idx THEN <<rows[i]>> ELSE <<>>) \o SelectRows(rows, idx, i + 1)

(* SpotDataLoader.get_data_for_date *)
GetDataForDate(sp, trade_date) ==
    IF sp.is_folder
    THEN LET iso == SpotName(trade_date, "iso")
             compact == SpotName(trade_date, "compact")
             found == IF iso \in DOMAIN sp.files THEN Some(iso)
                      ELSE IF compact \in DOMAIN sp.files THEN Some(compact)
                      ELSE None
         IN IF found = None THEN Return(EmptyFrame)
            ELSE LET file == sp.files[found[1]]
                 IN IF ~file.readable THEN Raise("ParserError")
                    ELSE IF /\ "datetime" \in NormColumns(file.columns)
                            /\ \E i \in 1..Len(file.rows) :
                                 ToDatetimeStrict(
                                    file.rows[i][RawHeader(file.columns, "datetime")]) = None
                    THEN Raise("ValueError")
                    ELSE Return(FolderFrame(file))
    ELSE IF sp.data = None \/ "datetime" \notin sp.data[1].columns
    THEN Return(EmptyFrame)
    ELSE LET df == sp.data[1]
             mask == {i \in 1..Len(df.rows) :
                        /\ df.rows[i]["datetime"] # NaT
                        /\ DateOf(df.rows[i]["datetime"][1]) = trade_date}
         IN Return([columns |-> df.columns, rows |-> SelectRows(df.rows, mask, 1)])

(* float(raw csv cell): a number, NaN for an empty cell, None (ValueError) *)
(* for a text                                                              *)
FloatOfRaw(cell) ==
    IF cell.kind = "num" THEN Some(Some(cell.v))
    ELSE IF cell.kind = "empty" THEN Some(NaN)
    ELSE None

(* SpotDataLoader.get_spot_price_at_time (lines 227-237) *)
SpotPriceOf(sp, timestamp, tolerance_minutes) ==
    LET got == GetDataForDate(sp, DateOf(timestamp))
    IN IF got.outcome = "raise" THEN got
       ELSE LET df == got.value[1]
            IN IF df.rows = <<>> THEN ReturnNone
               ELSE IF "datetime" \notin df.columns THEN Raise("KeyError")
               ELSE LET valid == {i \in 1..Len(df.rows) : df.rows[i]["datetime"] # NaT}
                    IN IF valid = {} THEN Raise("ValueError")
                       ELSE LET m == IdxMin(df.rows, valid, timestamp)
                                d == Abs(df.rows[m]["datetime"][1] - timestamp)
                            IN IF d > tolerance_minutes THEN ReturnNone
                               ELSE IF "close" \notin df.columns THEN Raise("KeyError")
                               ELSE LET c == df.rows[m]["close"]
                                        f == IF sp.is_folder THEN FloatOfRaw(c)
                                             ELSE Some(c)
                                    IN IF f = None THEN Raise("ValueError")
                                       ELSE Return(f[1])

GetSpotPriceAtTime(timestamp, tolerance_minutes) ==
    /\ Observe("get_spot_price_at_time", <<timestamp, tolerance_minutes>>,
               SpotPriceOf(spot, timestamp, tolerance_minutes), FALSE, None)
    /\ UNCHANGED <<loaderVars, spot, frame, ind, callers, disk_reads>>

----------------------------------------------------------------------------
(* Specification of the price lookups: one contract file, and one spot     *)
(* source, of every content within the bounds                              *)

MaxRows == 2
MaxTol == 1

PriceHeaders ==
    {{"Datetime", "Close", " Volume", "OI"},
     {"Timestamp", "Close", "OI"},
     {"Close", " Volume"}}

(* bars just before and after midnight of day 3 *)
BarTimes == {At(3, 0) - 1, At(3, 1), At(3, 3)}
PriceTimes == {At(3, 0), At(3, 2)}
PriceTolerances == 0..MaxTol

RowCells ==
    {[dt |-> d, volume |-> vo[1], oi |-> vo[2]] :
        d \in {TsCell(t) : t \in BarTimes} \cup {TextCell, EmptyCell},
        vo \in {<<NumCell(7), NumCell(3)>>, <<EmptyCell, NumCell(3)>>,
                <<NumCell(7), TextCell>>}}

(* row i of a file with header H: its close is 100 + i *)
MakeRow(H, i, rc) ==
    [h \in H |->
        CASE LowerStrip(h) \in {"datetime", "timestamp"} -> rc.dt
          [] LowerStrip(h) = "close" -> NumCell(100 + i)
          [] LowerStrip(h) = "volume" -> rc.volume
          [] OTHER -> rc.oi]

PriceContents ==
    UNION {UNION {{CsvFile(H, [i \in 1..n |-> MakeRow(H, i, cs[i])]) :
                      cs \in [1..n -> RowCells]} : n \in 0..MaxRows} :
           H \in PriceHeaders}

PriceDir == DateName(4, TRUE)
PricePath == Path(PriceDir, <<Dec(25000, <<0>>), "CE">>)

InitPrice ==
    /\ fs_entries = {Dir(PriceDir)}
    /\ expiry_folders \in ScanExpiries(fs_entries)
    /\ InitIdle
    /\ \E c \in PriceContents :
         /\ fs_files = [p \in {PricePath} |-> c]
         /\ \/ spot \in SpotFromFile(c)
            \/ \E form \in {"iso", "compact"} :
                  spot = SpotFromFolder([n \in {SpotName(3, form)} |-> c])
    /\ frame = <<>>
    /\ ind = <<>>

NextPrice ==
    \/ \E ts \in PriceTimes, tol \in PriceTolerances :
          GetOptionPriceAtTime(4, FloatStrike(250000), "CE", ts, tol)
    \/ \E ts \in PriceTimes, tol \in PriceTolerances :
          GetSpotPriceAtTime(ts, tol)

SpecPrice == InitPrice /\ [][NextPrice]_vars

----------------------------------------------------------------------------
(* IndicatorCalculator.  A float is NaN (<<>>) or <<[n, d]>>: the rational *)
(* n/d in lowest terms with d > 0, or an infinity, n = 1 or -1 with d = 0. *)
(* The arithmetic is exact where the code's is floating point; products   *)
(* are formed on operands reduced crosswise, so they stay small.           *)

RECURSIVE Gcd(_, _)
Gcd(a, b) == IF b = 0 THEN a ELSE Gcd(b, a % b)

Sgn(x) == IF x > 0 THEN 1 ELSE IF x < 0 THEN -1 ELSE 0

Rat(n, d) ==
    IF d = 0 THEN [n |-> Sgn(n), d |-> 0]
    ELSE LET g == Gcd(Abs(n), Abs(d))
         IN [n |-> (Sgn(d) * n) \div g, d |-> Abs(d) \div g]

Num(i) == Some([n |-> i, d |-> 1])
IsInf(x) == x # NaN /\ x[1].d = 0
IsZero(x) == x # NaN /\ x[1].d # 0 /\ x[1].n = 0

FNeg(x) == IF x = NaN THEN NaN ELSE Some([n |-> -x[1].n, d |-> x[1].d])

FAbs(x) == IF x = NaN THEN NaN ELSE Some([n |-> Abs(x[1].n), d |-> x[1].d])

FAdd(x, y) ==
    IF x = NaN \/ y = NaN THEN NaN
    ELSE IF IsInf(x) /\ IsInf(y) THEN (IF x[1].n = y[1].n THEN x ELSE NaN)
    ELSE IF IsInf(x) THEN x
    ELSE IF IsInf(y) THEN y
    ELSE LET g == Gcd(x[1].d, y[1].d)
         IN Some(Rat(x[1].n * (y[1].d \div g) + y[1].n * (x[1].d \div g),
                     (x[1].d \div g) * y[1].d))

FSub(x, y) == FAdd(x, FNeg(y))

FMul(x, y) ==
    IF x = NaN \/ y = NaN THEN NaN
    ELSE IF (IsInf(x) /\ IsZero(y)) \/ (IsZero(x) /\ IsInf(y)) THEN NaN
    ELSE IF IsInf(x) \/ IsInf(y)
    THEN Some([n |-> Sgn(x[1].n) * Sgn(y[1].n), d |-> 0])
    ELSE LET a == Rat(x[1].n, y[1].d)
             b == Rat(y[1].n, x[1].d)
         IN Some(Rat(a.n * b.n, a.d * b.d))

FDiv(x, y) ==
    IF x = NaN \/ y = NaN THEN NaN
    ELSE IF IsInf(y) THEN (IF IsInf(x) THEN NaN ELSE Num(0))
    ELSE IF IsZero(y)
    THEN (IF IsZero(x) THEN NaN ELSE Some([n |-> Sgn(x[1].n), d |-> 0]))
    ELSE IF IsInf(x) THEN Some([n |-> Sgn(x[1].n) * Sgn(y[1].n), d |-> 0])
    ELSE LET a == Rat(x[1].n, y[1].n)
             b == Rat(y[1].d, x[1].d)
         IN Some(Rat(a.n * b.n, a.d * b.d))

FGreater(x, y) ==
    /\ x # NaN
    /\ y # NaN
    /\ FSub(x, y) # NaN
    /\ FSub(x, y)[1].n > 0

FMax(x, y) ==
    IF x = NaN THEN y
    ELSE IF y = NaN THEN x
    ELSE IF FGreater(y, x) THEN y ELSE x

(* a series: the function f over 1..n as a sequence *)
Series(f) == f \o <<>>

(* a column of the bar table as a series of floats *)
Column(df, c) == Series([i \in 1..Len(df) |-> Num(df[i][c])])

(* Series.diff() *)
Diff(xs) == Series([i \in 1..Len(xs) |-> IF i = 1 THEN NaN ELSE FSub(xs[i], xs[i - 1])])

(* Series.shift() *)
Shift(xs) == Series([i \in 1..Len(xs) |-> IF i = 1 THEN NaN ELSE xs[i - 1]])

(* xs.where(xs > 0, 0): a NaN compares false and becomes 0 *)
WherePositive(xs) ==
    Series([i \in 1..Len(xs) |-> IF FGreater(xs[i], Num(0)) THEN xs[i] ELSE Num(0)])

(* (-xs).where(xs < 0, 0) *)
NegWhereNegative(xs) ==
    Series([i \in 1..Len(xs) |-> IF FGreater(Num(0), xs[i]) THEN FNeg(xs[i]) ELSE Num(0)])

(* xs.replace(0, np.nan) *)
ReplaceZero(xs) == Series([i \in 1..Len(xs) |-> IF IsZero(xs[i]) THEN NaN ELSE xs[i]])

(* xs.fillna(v) *)
FillNa(xs, v) == Series([i \in 1..Len(xs) |-> IF xs[i] = NaN THEN v ELSE xs[i]])

(* pandas' ewm(alpha=.., adjust=False, min_periods=..).mean(), from row i  *)
(* on: weighted is the mean so far, old_wt its weight, nobs the number of  *)
(* observations seen; a NaN row only ages the mean                         *)
RECURSIVE EwmFrom(_, _, _, _, _, _, _)
EwmFrom(xs, i, alpha, minp, weighted, old_wt, nobs) ==
    IF i > Len(xs) THEN <<>>
    ELSE LET cur == xs[i]
             obs == cur # NaN
             n2 == nobs + (IF obs THEN 1 ELSE 0)
             aged == FMul(old_wt, FSub(Num(1), alpha))
             w2 == IF weighted # NaN
                   THEN (IF obs
                         THEN FDiv(FAdd(FMul(aged, weighted), FMul(alpha, cur)),
                                   FAdd(aged, alpha))
                         ELSE weighted)
                   ELSE cur
             o2 == IF weighted # NaN THEN (IF obs THEN Num(1) ELSE aged)
                   ELSE old_wt
         IN <<IF n2 >= minp THEN w2 ELSE NaN>>
               \o EwmFrom(xs, i + 1, alpha, minp, w2, o2, n2)

(* xs.ewm(alpha=1/period, adjust=False, min_periods=min_periods).mean() *)
WilderEwm(xs, period, min_periods) ==
    EwmFrom(xs, 1, FDiv(Num(1), Num(period)), min_periods, NaN, Num(1), 0)

(* 100 - (100 / (1 + rs)), row by row *)
RsiFromRs(rs) ==
    Series([i \in 1..Len(rs) |->
               FSub(Num(100), FDiv(Num(100), FAdd(Num(1), rs[i])))])

(* a / b, row by row *)
SeriesDiv(a, b) == Series([i \in 1..Len(a) |-> FDiv(a[i], b[i])])

(* an rsi that divides by a zero average loss: a mutant *)
RsiNoZeroGuard(df, period) ==
    LET delta == Diff(Column(df, "close"))
        avg_gain == WilderEwm(WherePositive(delta), period, period)
        avg_loss == WilderEwm(NegWhereNegative(delta), period, period)
        rs == SeriesDiv(avg_gain, avg_loss)
    IN FillNa(RsiFromRs(rs), Num(50))

(* IndicatorCalculator.rsi *)
RsiOf(df, period) ==
    LET delta == Diff(Column(df, "close"))
        gain == WherePositive(delta)
        loss == NegWhereNegative(delta)
        avg_gain == WilderEwm(gain, period, period)
        avg_loss == WilderEwm(loss, period, period)
        rs == SeriesDiv(avg_gain, ReplaceZero(avg_loss))
    IN FillNa(RsiFromRs(rs), Num(50))

(* the true range: pd.concat([hl, hc, lc], axis=1).max(axis=1), NaN skipped *)
TrueRange(df) ==
    LET high == Column(df, "high")
        low == Column(df, "low")
        prev == Shift(Column(df, "close"))
    IN Series([i \in 1..Len(df) |->
                  FMax(FMax(FSub(high[i], low[i]), FAbs(FSub(high[i], prev[i]))),
                       FAbs(FSub(low[i], prev[i])))])

(* IndicatorCalculator.atr *)
AtrOf(df, period) == WilderEwm(TrueRange(df), period, period)

(* xs.abs() *)
SeriesAbs(xs) == Series([i \in 1..Len(xs) |-> FAbs(xs[i])])

(* 100 * smoothed / smoothed_tr, row by row *)
DirectionalIndex(smoothed, smoothed_tr) ==
    Series([i \in 1..Len(smoothed) |->
               FDiv(FMul(Num(100), smoothed[i]), smoothed_tr[i])])

(* IndicatorCalculator.adx: the series under the key 'adx' *)
AdxOf(df, period) ==
    LET n == Len(df)
        plus_dm == WherePositive(Diff(Column(df, "high")))
        minus_dm == WherePositive(SeriesAbs(Diff(Column(df, "low"))))
        tr == AtrOf(df, 1)
        smoothed_tr == WilderEwm(tr, period, period)
        plus_di == DirectionalIndex(WilderEwm(plus_dm, period, period), smoothed_tr)
        minus_di == DirectionalIndex(WilderEwm(minus_dm, period, period), smoothed_tr)
        total == ReplaceZero(Series([i \in 1..n |-> FAdd(plus_di[i], minus_di[i])]))
        dx == Series([i \in 1..n |->
                 FDiv(FMul(Num(100), FAbs(FSub(plus_di[i], minus_di[i]))), total[i])])
    IN FillNa(WilderEwm(dx, period, period), Num(0))

(* Series.cumsum(): a NaN row stays NaN and adds nothing *)
RECURSIVE CumSumFrom(_, _, _)
CumSumFrom(xs, i, acc) ==
    IF i > Len(xs) THEN <<>>
    ELSE IF xs[i] = NaN THEN <<NaN>> \o CumSumFrom(xs, i + 1, acc)
    ELSE <<FAdd(acc, xs[i])>> \o CumSumFrom(xs, i + 1, FAdd(acc, xs[i]))

(* np.sign *)
FSign(x) == IF x = NaN THEN NaN ELSE Num(Sgn(x[1].n))

(* np.sign(df['close'].diff()) *)
CloseSigns(df) ==
    LET delta == Diff(Column(df, "close"))
    IN Series([i \in 1..Len(df) |-> FSign(delta[i])])

(* an obv that leaves the first direction NaN: a mutant *)
ObvDirectionNoReset(df) == CloseSigns(df)

(* the direction series of obv after direction.iloc[0] = 0 *)
ObvDirection(df) == [CloseSigns(df) EXCEPT ![1] = Num(0)]

(* IndicatorCalculator.obv; direction.iloc[0] = 0 raises on an empty table *)
ObvOf(df) ==
    IF Len(df) = 0 THEN Raise("IndexError")
    ELSE LET direction == ObvDirection(df)
             volume == Column(df, "volume")
             signed == Series([i \in 1..Len(df) |-> FMul(direction[i], volume[i])])
         IN Return(CumSumFrom(signed, 1, Num(0)))

(* the sum of the observations of xs in rows lo..hi, and their number *)
RECURSIVE WindowSum(_, _, _)
WindowSum(xs, lo, hi) ==
    IF lo > hi THEN Num(0)
    ELSE IF xs[hi] = NaN THEN WindowSum(xs, lo, hi - 1)
    ELSE FAdd(WindowSum(xs, lo, hi - 1), xs[hi])

WindowCount(xs, lo, hi) == Cardinality({i \in lo..hi : xs[i] # NaN})

(* xs.rolling(window=window, min_periods=min_periods).mean() *)
RollingMean(xs, window, min_periods) ==
    Series([t \in 1..Len(xs) |->
               LET lo == IF t - window + 1 > 1 THEN t - window + 1 ELSE 1
               IN IF WindowCount(xs, lo, t) >= min_periods
                  THEN FDiv(WindowSum(xs, lo, t), Num(WindowCount(xs, lo, t)))
                  ELSE NaN])

(* an sma whose early rows wait for a full window: a mutant *)
SmaFullWindow(df, period) == RollingMean(Column(df, "close"), period, period)

(* IndicatorCalculator.sma, column='close' *)
SmaOf(df, period) == RollingMean(Column(df, "close"), period, 1)

NoIndicator == [name |-> "", period |-> 0, outcome |-> "return", out |-> <<>>]

(* the indicators are static and pure: a behaviour applies one of them to  *)
(* its bar table                                                           *)
Computed(name, period, res) ==
    /\ ind = NoIndicator
    /\ ind' = [name |-> name, period |-> period, outcome |-> res.outcome,
               out |-> IF res.outcome = "return" THEN res.value[1] ELSE <<>>]
    /\ UNCHANGED <<loaderVars, ret, spot, frame, callers, disk_reads>>

Rsi(period) == Computed("RSI", period, Return(RsiOf(frame, period)))
Atr(period) == Computed("ATR", period, Return(AtrOf(frame, period)))
Adx(period) == Computed("ADX", period, Return(AdxOf(frame, period)))
Obv == Computed("OBV", 0, ObvOf(frame))
Sma(period) == Computed("SMA", period, Return(SmaOf(frame, period)))

(* Specification of the indicators: every bar table within the bounds *)
MaxLen == 4
MaxPeriod == 3

(* the bars: a close of 9, 10 or 11 with high = low = close and volume    *)
(* 100, and two bars a point wide on each side, of volume 50 and 0         *)
Bar(c, s, v) == [high |-> c + s, low |-> c - s, close |-> c, volume |-> v]

BarChoices ==
    {Bar(9, 0, 100), Bar(10, 0, 100), Bar(11, 0, 100), Bar(10, 1, 50), Bar(11, 1, 0)}

InitInd ==
    /\ frame \in UNION {[1..n -> BarChoices] : n \in 0..MaxLen}
    /\ ind = NoIndicator
    /\ fs_entries = {}
    /\ fs_files = EmptyMap
    /\ expiry_folders = EmptyMap
    /\ InitIdle
    /\ spot = NoSpot

NextInd ==
    \/ \E p \in 1..MaxPeriod : Rsi(p)
    \/ \E p \in 1..MaxPeriod : Atr(p)
    \/ \E p \in 1..MaxPeriod : Adx(p)
    \/ Obv

SpecInd == InitInd /\ [][NextInd]_vars

(* Specification of the moving average: every series of closes 10, 20, 30  *)
(* and 40 within the bounds                                                *)
SmaBars == {Bar(c, 0, 100) : c \in {10, 20, 30, 40}}

InitSma ==
    /\ frame \in UNION {[1..n -> SmaBars] : n \in 0..MaxLen}
    /\ ind = NoIndicator
    /\ fs_entries = {}
    /\ fs_files = EmptyMap
    /\ expiry_folders = EmptyMap
    /\ InitIdle
    /\ spot = NoSpot

NextSma == \E p \in 1..MaxPeriod : Sma(p)

SpecSma == InitSma /\ [][NextSma]_vars

----------------------------------------------------------------------------
(* Several callers inside load_option_data of one shared OptionsDataLoader. *)
(* The method takes no lock, so a caller may be overtaken between its cache *)
(* check with the file resolution (lines 83-103), its read of the file      *)
(* (lines 106-109) and its insertion into the cache (lines 110-111).        *)

MaxCallers == 2
Callers == 1..MaxCallers

Idle == [pc |-> "idle", args |-> <<>>, path |-> None, df |-> None]

ReadsOf(key) == IF key \in DOMAIN disk_reads THEN disk_reads[key] ELSE 0

(* lines 83-103: the cache answers, or there is no file, or the caller goes *)
(* on to read the file it found                                             *)
CheckCache(t, expiry, strike, option_type) ==
    LET key == DataKey(expiry, strike, option_type)
        args == <<expiry, strike, option_type>>
        found == IF expiry \in DOMAIN expiry_folders
                 THEN ResolveFile(fs_files, expiry_folders[expiry], strike,
                                  option_type)
                 ELSE None
    IN /\ callers[t].pc = "idle"
       /\ IF key \in DOMAIN data_cache
          THEN /\ Observe("load_option_data", args, Return(data_cache[key]),
                          TRUE, None)
               /\ UNCHANGED callers
          ELSE IF found = None
          THEN /\ Observe("load_option_data", args, ReturnNone, FALSE, None)
               /\ UNCHANGED callers
          ELSE /\ callers' = [callers EXCEPT ![t] =
                                 [pc |-> "found", args |-> args, path |-> found,
                                  df |-> None]]
               /\ UNCHANGED ret
       /\ UNCHANGED <<loaderVars, spot, frame, ind, disk_reads>>

(* lines 106-109: pd.read_csv and the standardisation; a file that cannot   *)
(* be read is logged and the call returns None                              *)
ReadCsv(t) ==
    LET c == callers[t]
        key == DataKey(c.args[1], c.args[2], c.args[3])
    IN /\ c.pc = "found"
       /\ IF c.path[1] \in DOMAIN fs_files /\ fs_files[c.path[1]].readable
          THEN /\ callers' = [callers EXCEPT ![t] =
                                 [c EXCEPT !.pc = "loaded",
                                           !.df = Some(StampedFrame(fs_files[c.path[1]],
                                                                    c.args[2], c.args[3]))]]
               /\ disk_reads' = MapPut(disk_reads, key, ReadsOf(key) + 1)
               /\ UNCHANGED ret
          ELSE /\ callers' = [callers EXCEPT ![t] = Idle]
               /\ Observe("load_option_data", c.args, ReturnNone, FALSE, c.path)
               /\ UNCHANGED disk_reads
       /\ UNCHANGED <<loaderVars, spot, frame, ind>>

(* lines 110-111: the table enters the cache and is returned *)
CacheInsert(t) ==
    LET c == callers[t]
        key == DataKey(c.args[1], c.args[2], c.args[3])
    IN /\ c.pc = "loaded"
       /\ data_cache' = MapPut(data_cache, key, c.df[1])
       /\ callers' = [callers EXCEPT ![t] = Idle]
       /\ Observe("load_option_data", c.args, Return(c.df[1]), FALSE, c.path)
       /\ UNCHANGED <<fs_entries, fs_files, expiry_folders, strike_cache,
                      spot, frame, ind, disk_reads>>

SharedPaths ==
    {Path(DateName(4, TRUE), <<Dec(25000, <<>>), "CE">>),
     Path(DateName(4, TRUE), <<Dec(25000, <<0>>), "CE">>)}

SharedStrikes == {IntStrike(25000), FloatStrike(250000)}

InitShared ==
    /\ fs_entries = {Dir(DateName(4, TRUE))}
    /\ \E S \in SUBSET SharedPaths : fs_files = [p \in S |-> SampleBars]
    /\ expiry_folders \in ScanExpiries(fs_entries)
    /\ strike_cache = EmptyMap
    /\ data_cache = EmptyMap
    /\ ret = NoCall
    /\ callers = [t \in Callers |-> Idle]
    /\ disk_reads = EmptyMap
    /\ spot = NoSpot
    /\ frame = <<>>
    /\ ind = <<>>

NextShared ==
    \/ \E t \in Callers, e \in QueryExpiries, s \in SharedStrikes :
          CheckCache(t, e, s, "CE")
    \/ \E t \in Callers : ReadCsv(t)
    \/ \E t \in Callers : CacheInsert(t)
    \/ ClearCache

(* one loader shared by concurrent callers, the files on disk unchanged *)
SpecShared == InitShared /\ [][NextShared]_vars

----------------------------------------------------------------------------
(* Specification of the strike index with the loader: one expiry folder    *)
(* holding any of four well-formed contract files, strikes asked as the    *)
(* floats get_available_strikes lists                                      *)

ListedPaths ==
    {Path(DateName(4, TRUE), <<Dec(25000, <<>>), "CE">>),
     Path(DateName(4, TRUE), <<Dec(25000, <<0>>), "CE">>),
     Path(DateName(4, TRUE), <<Dec(25000, <<5>>), "PE">>),
     Path(DateName(4, TRUE), <<Dec(25100, <<>>), "PE">>)}

ListedStrikes == {FloatStrike(250000), FloatStrike(250005), FloatStrike(251000)}

ListedTypes == {"CE", "PE"}

InitListed ==
    /\ fs_entries = {Dir(DateName(4, TRUE))}
    /\ \E S \in SUBSET ListedPaths : fs_files = [p \in S |-> SampleBars]
    /\ expiry_folders \in ScanExpiries(fs_entries)
    /\ InitIdle
    /\ spot = NoSpot
    /\ frame = <<>>
    /\ ind = <<>>

NextListed ==
    \/ \E e \in QueryExpiries : GetAvailableStrikes(e)
    \/ \E e \in QueryExpiries, s \in ListedStrikes, t \in ListedTypes :
          LoadOptionData(e, s, t)
    \/ ClearCache

SpecListed == InitListed /\ [][NextListed]_vars

----------------------------------------------------------------------------
(* Properties of the options loader *)

(* the expiry dates of the folders on disk *)
ListedOnDisk ==
    {e.name.day : e \in {x \in fs_entries : x.is_dir /\ x.name.kind = "ymd"}}

(* C3: get_expiry_for_date(d) returns the least listed expiry >= d, and    *)
(* None exactly when every listed expiry is < d (or none is listed).       *)
C3_ExpiryOnOrAfter ==
    ret.op = "get_expiry_for_date" =>
        LET d == ret.args[1].date
            later == {e \in ListedOnDisk : e >= d}
        IN IF later = {} THEN ret.value = None
           ELSE /\ ret.value # None
                /\ ret.value[1] \in later
                /\ \A e \in later : ret.value[1] <= e

(* an expiry is returned that is neither the first nor the last listed *)
C3_Witness ==
    /\ ret.op = "get_expiry_for_date"
    /\ ret.value # None
    /\ \E e \in ListedOnDisk : e < ret.args[1].date
    /\ \E e \in ListedOnDisk : e > ret.value[1]
    /\ ret.value[1] > ret.args[1].date

(* the two file names load_option_data looks for, as the claim words them *)
ExactThere(e, s, t) ==
    /\ e \in DOMAIN expiry_folders
    /\ Path(expiry_folders[e], <<PyStr(s), Upper(t)>>) \in DOMAIN fs_files

FallbackThere(e, s, t) ==
    /\ e \in DOMAIN expiry_folders
    /\ Path(expiry_folders[e], <<Dec(s.tenths \div 10, <<0>>), Upper(t)>>)
          \in DOMAIN fs_files

(* C4: load_option_data reads '<strike>_<TYPE>.csv' when it exists, else   *)
(* '<int(strike)>.0_<TYPE>.csv' when that exists; it returns None when     *)
(* neither exists or the expiry is unknown; a readable file that is found  *)
(* is returned as a table, so strike 25000.0 with only '25000.0_CE.csv'    *)
(* loads.                                                                  *)
C4_StrikeFileResolution ==
    ret.op = "load_option_data" =>
        LET e == ret.args[1]
            s == ret.args[2]
            t == ret.args[3]
            exact == Path(expiry_folders[e], <<PyStr(s), Upper(t)>>)
            fallback == Path(expiry_folders[e],
                             <<Dec(s.tenths \div 10, <<0>>), Upper(t)>>)
        IN /\ (~ExactThere(e, s, t) /\ ~FallbackThere(e, s, t))
                 => (ret.value = None /\ ret.path = None)
           /\ (~ret.hit /\ ExactThere(e, s, t)) => ret.path = Some(exact)
           /\ (~ret.hit /\ ~ExactThere(e, s, t) /\ FallbackThere(e, s, t))
                 => ret.path = Some(fallback)
           /\ (ret.path # None /\ fs_files[ret.path[1]].readable)
                 => ret.value # None
           /\ (/\ s = FloatStrike(250000)
               /\ ExactThere(e, s, t)
               /\ ~ExactThere(e, IntStrike(25000), t)
               /\ fs_files[exact].readable)
                 => ret.value # None

(* strike 25000 is loaded from '25000.0_CE.csv', '25000_CE.csv' absent *)
C4_Witness ==
    /\ ret.op = "load_option_data"
    /\ ret.args[2] = IntStrike(25000)
    /\ ~ExactThere(ret.args[1], ret.args[2], ret.args[3])
    /\ ret.path = Some(Path(DateName(4, TRUE), <<Dec(25000, <<0>>), "CE">>))
    /\ ret.value # None

(* C5: after clear_cache the strike cache and the data cache are both      *)
(* empty and the expiry index lists what it listed before the call,        *)
(* whatever the folders on disk have become.                               *)
C5_ClearCacheFrame ==
    ret.cleared =>
        /\ strike_cache = EmptyMap
        /\ data_cache = EmptyMap
        /\ GetAvailableExpiries(expiry_folders) = ret.before

(* both caches held entries, and the disk no longer matches the index *)
C5_Witness ==
    /\ ret.cleared
    /\ ret.dropped[1] > 0
    /\ ret.dropped[2] > 0
    /\ ListedOnDisk # DOMAIN expiry_folders
    /\ strike_cache = EmptyMap
    /\ data_cache = EmptyMap

(* C6: a query repeated right after clear_cache, the disk unchanged, is    *)
(* not answered by a cache, reads the file again when it returns a table,  *)
(* and has the outcome it had before the clear.                            *)
C6_ClearThenRequery ==
    ret.prior # None =>
        /\ ~ret.hit
        /\ Outcome(ret) = ret.prior[1]
        /\ (ret.op = "load_option_data" /\ ret.value # None) => ret.path # None

(* a price found before the clear is found again after it *)
C6_Witness ==
    /\ ret.prior # None
    /\ ret.op = "get_option_price_at_time"
    /\ ret.value # None
    /\ ret.path # None

----------------------------------------------------------------------------
(* Properties of the price lookups.  A bar of a file is a row whose        *)
(* timestamp cell holds a timestamp.                                       *)

TimeHeaders(file) ==
    {h \in file.columns : LowerStrip(h) \in {"datetime", "date", "time", "timestamp"}}

BarRows(file) ==
    {i \in 1..Len(file.rows) : \E h \in TimeHeaders(file) : file.rows[i][h].kind = "ts"}

BarTime(file, i) == file.rows[i][CHOOSE h \in TimeHeaders(file) : TRUE].v

(* the bars of a file as [t, close] *)
BarsOfFile(file) ==
    {[t |-> BarTime(file, i), close |-> file.rows[i]["Close"].v] : i \in BarRows(file)}

(* the bars the spot source holds for a date: those of the table loaded at *)
(* construction, or of the date's file                                     *)
SpotBars(date) ==
    IF spot.is_folder
    THEN UNION {BarsOfFile(spot.files[n]) :
                   n \in {SpotName(date, "iso"), SpotName(date, "compact")}
                           \cap DOMAIN spot.files}
    ELSE {[t |-> r["datetime"][1], close |-> r["close"][1]] :
             r \in {spot.data[1].rows[i] :
                      i \in {j \in 1..Len(spot.data[1].rows) :
                               spot.data[1].rows[j]["datetime"] # NaT}}}

IsOptionPrice == ret.op = "get_option_price_at_time"
IsSpotPrice == ret.op = "get_spot_price_at_time"
AskedTime == IF IsOptionPrice THEN ret.args[4] ELSE ret.args[1]
AskedTolerance == IF IsOptionPrice THEN ret.args[5] ELSE ret.args[2]

(* C1: a price lookup that returns never returns a bar farther than the    *)
(* tolerance from the timestamp, and returns None when no bar of the       *)
(* timestamp's calendar date lies within the tolerance.                    *)
C1_NearestWithinTolerance ==
    ((IsOptionPrice \/ IsSpotPrice) /\ ret.outcome = "return") =>
        LET bars == IF IsOptionPrice THEN BarsOfFile(fs_files[PricePath])
                    ELSE SpotBars(DateOf(AskedTime))
            near == {b \in bars : /\ DateOf(b.t) = DateOf(AskedTime)
                                  /\ Abs(b.t - AskedTime) <= AskedTolerance}
            returned == IF IsOptionPrice
                        THEN {b \in bars : b.t = ret.value[1].datetime}
                        ELSE {b \in bars : Some(b.close) = ret.value[1]}
        IN /\ ret.value # None =>
                \E b \in returned : Abs(b.t - AskedTime) <= AskedTolerance
           /\ near = {} => ret.value = None

(* the rows of the contract file that are nearest to the timestamp among   *)
(* the bars of its date, and within the tolerance                          *)
NearestRows ==
    LET file == fs_files[PricePath]
        day == {i \in BarRows(file) : DateOf(BarTime(file, i)) = DateOf(AskedTime)}
    IN {i \in day :
          /\ Abs(BarTime(file, i) - AskedTime) <= AskedTolerance
          /\ \A j \in day :
                Abs(BarTime(file, i) - AskedTime) <= Abs(BarTime(file, j) - AskedTime)}

(* C2: when a bar before the timestamp and a bar after it are equally near *)
(* and nearest, within the tolerance, the earlier one is returned,         *)
(* whatever the order of the rows in the file.                             *)
C2_EarlierBarWinsTie ==
    (IsOptionPrice /\ ret.outcome = "return") =>
        LET file == fs_files[PricePath]
        IN \A i, j \in NearestRows :
              BarTime(file, i) < AskedTime /\ AskedTime < BarTime(file, j)
                 => /\ ret.value # None
                    /\ ret.value[1].datetime = BarTime(file, i)

(* the cell of row i under the column named col is missing: no such        *)
(* column, or no number in the cell                                        *)
MissingCell(file, i, col) ==
    \A h \in file.columns : LowerStrip(h) = col => file.rows[i][h].kind # "num"

(* C7: when the matched bar has no volume (no oi), the lookup returns a    *)
(* record whose volume (oi) is 0 and does not raise.                       *)
C7_MissingDefaultsToZero ==
    IsOptionPrice =>
        \A col \in {"volume", "oi"} :
            (/\ NearestRows # {}
             /\ \A i \in NearestRows : MissingCell(fs_files[PricePath], i, col))
               => /\ ret.outcome = "return"
                  /\ ret.value # None
                  /\ ret.value[1][col] = 0

----------------------------------------------------------------------------
(* Properties of the indicators *)

(* C8: RSI, ATR and ADX of parameter period are missing on every row       *)
(* before period observations have accumulated (rows 0 .. period-2).       *)
C8_WarmUpRowsMissing ==
    ind.name \in {"RSI", "ATR", "ADX"} =>
        \A t \in 1..Len(ind.out) : t <= ind.period - 1 => ind.out[t] = NaN

(* C9: RSI is exactly 50 on every row of a flat series, and on every row   *)
(* whose smoothed average loss is 0, that is, up to which no close fell.   *)
C9_RsiZeroLossIsFifty ==
    ind.name = "RSI" =>
        /\ (\A i \in 1..Len(frame) : frame[i].close = frame[1].close)
              => \A t \in 1..Len(frame) : ind.out[t] = Num(50)
        /\ \A t \in 1..Len(frame) :
              (\A i \in 2..t : frame[i].close >= frame[i - 1].close)
                 => ind.out[t] = Num(50)

(* a rising series past its warm-up: average gain positive, loss zero *)
C9_Witness ==
    /\ ind.name = "RSI"
    /\ ind.period = 2
    /\ Len(frame) = 3
    /\ frame[1].close < frame[2].close
    /\ frame[2].close < frame[3].close
    /\ ind.out[3] = Num(50)

RECURSIVE SignedVolumeSum(_, _)
SignedVolumeSum(df, t) ==
    IF t <= 1 THEN 0
    ELSE SignedVolumeSum(df, t - 1)
            + (IF df[t].close > df[t - 1].close THEN df[t].volume
               ELSE IF df[t].close < df[t - 1].close THEN -df[t].volume
               ELSE 0)

(* C10: OBV at row t is the sum over rows 0..t of                          *)
(* sign(close[i] - close[i-1]) * volume[i], the first row counting 0;      *)
(* closes [10,9,11,11] with volumes 100 give [0,-100,0,0].                 *)
C10_ObvRunningSum ==
    (ind.name = "OBV" /\ ind.outcome = "return") =>
        /\ Len(ind.out) = Len(frame)
        /\ \A t \in 1..Len(frame) : ind.out[t] = Num(SignedVolumeSum(frame, t))
        /\ (/\ [i \in 1..Len(frame) |-> frame[i].close] = <<10, 9, 11, 11>>
            /\ \A i \in 1..Len(frame) : frame[i].volume = 100)
              => ind.out = <<Num(0), Num(-100), Num(0), Num(0)>>

(* the example of the claim *)
C10_Witness ==
    /\ ind.name = "OBV"
    /\ [i \in 1..Len(frame) |-> frame[i].close] = <<10, 9, 11, 11>>
    /\ \A i \in 1..Len(frame) : frame[i].volume = 100
    /\ ind.out = <<Num(0), Num(-100), Num(0), Num(0)>>

RECURSIVE CloseSum(_, _, _)
CloseSum(df, lo, hi) ==
    IF lo > hi THEN 0 ELSE CloseSum(df, lo, hi - 1) + df[hi].close

(* C11: SMA(period) at row t is the arithmetic mean of the last            *)
(* min(t+1, period) closes, no early row missing; SMA(3) on closes         *)
(* [10,20,30,40] is [10,15,20,30].                                         *)
C11_SmaShrinkingWindow ==
    ind.name = "SMA" =>
        /\ Len(ind.out) = Len(frame)
        /\ \A t \in 1..Len(frame) :
              LET k == IF t < ind.period THEN t ELSE ind.period
              IN /\ ind.out[t] # NaN
                 /\ ind.out[t][1].d > 0
                 /\ ind.out[t][1].n * k = ind.out[t][1].d * CloseSum(frame, t - k + 1, t)
        /\ (/\ ind.period = 3
            /\ [i \in 1..Len(frame) |-> frame[i].close] = <<10, 20, 30, 40>>)
              => ind.out = <<Num(10), Num(15), Num(20), Num(30)>>

(* the example of the claim *)
C11_Witness ==
    /\ ind.name = "SMA"
    /\ ind.period = 3
    /\ [i \in 1..Len(frame) |-> frame[i].close] = <<10, 20, 30, 40>>
    /\ ind.out = <<Num(10), Num(15), Num(20), Num(30)>>

----------------------------------------------------------------------------
(* Properties of the shared loader *)

(* C12: between clear_cache calls the contract file of a key (expiry,      *)
(* strike, option type) is read from disk at most once, whatever the       *)
(* interleaving of the callers' cache checks, file reads and cache inserts.*)
C12_AtMostOneRead ==
    \A key \in DOMAIN disk_reads : disk_reads[key] <= 1

(* C13: a strike that get_available_strikes reported for a known expiry   *)
(* under option type CE or PE loads: load_option_data with that float      *)
(* returns a table, read from a file whose name parses to that strike.     *)
C13_ListedStrikeLoads ==
    (/\ ret.op = "load_option_data"
     /\ ret.args[1] \in DOMAIN expiry_folders
     /\ ret.args[1] \in DOMAIN strike_cache
     /\ ret.args[2].py = "float"
     /\ ret.args[3] \in {"CE", "PE"}
     /\ \E i \in 1..Len(strike_cache[ret.args[1]][ret.args[3]]) :
           strike_cache[ret.args[1]][ret.args[3]][i] = ret.args[2].tenths)
        => /\ ret.value # None
           /\ ~ret.hit => /\ ret.path # None
                          /\ PyFloat(ret.path[1].file[1]) = Some(ret.args[2].tenths)

====
